---- MODULE Spec2Model ----
(***************************************************************************)
(* MysqlCompareUtil.py: acquisition of two MySQL schemas with DESCRIBE,    *)
(* compare_table_structures, print_comparison_result and export_to_excel.  *)
(*                                                                         *)
(* Python values are modelled as follows.                                  *)
(*   dict            a function (DOMAIN = keys); dict equality ignores     *)
(*                   insertion order, and so does function equality        *)
(*   list / tuple    a sequence; Python index i is sequence index i + 1    *)
(*   set             a set; list(set) is any enumeration of the set, the   *)
(*                   iteration order of a set of str being unspecified     *)
(*                   (it varies with the hash seed of the process)         *)
(*   None            the empty sequence <<>>, a str s in the Default       *)
(*                   column of DESCRIBE the one-element sequence <<s>>     *)
(* The Chinese literals of the source are written in ASCII; the comment at *)
(* each definition gives the original text.                                *)
(***************************************************************************)
EXTENDS Integers, Sequences, FiniteSets, TLC

VARIABLES
    server,      \* <<s1, s2>>: the schema each MySQL server holds
    pc,          \* position of the run
    side,        \* which get_table_structure call of __main__ is running
    tables,      \* get_table_structure: local `tables`
    idx,         \* get_table_structure: position of `for table in tables`
    table_info,  \* get_table_structure: local `table_info`
    returned,    \* the get_table_structure calls that have returned
    db1,         \* db1_tables of __main__, db1 of compare_table_structures
    db2,         \* db2_tables of __main__, db2 of compare_table_structures
    calls,       \* number of compare_table_structures invocations so far
    result,      \* the dict compare_table_structures builds and returns
    console,     \* what print_comparison_result has printed
    wb,          \* export_to_excel: the worksheets of the workbook, in order
    saved        \* export_to_excel: wb.save(filename) has written the file

vars == <<server, pc, side, tables, idx, table_info, returned, db1, db2,
          calls, result, console, wb, saved>>

-----------------------------------------------------------------------------
(* Bounds of the model. *)

\* number of table names a schema may use
MaxTables == 3
\* number of times a caller invokes compare_table_structures on one input
MaxCalls == 2

\* table names in the order SHOW TABLES lists them
AllTableNames == <<"orders", "products", "users", "vendors">>
TableNames == {AllTableNames[i] : i \in 1..MaxTables}

-----------------------------------------------------------------------------
(* Python helpers. *)

\* row[i] of a DESCRIBE row: 0 Field, 1 Type, 2 Null, 3 Key, 4 Default, 5 Extra
At(row, i) == row[i + 1]

None == <<>>
Str(s) == <<s>>

Range(s) == {s[i] : i \in 1..Len(s)}

\* list(S): every order in which the elements of the set S can come out
ListOfSet(S) ==
    {s \in [1..Cardinality(S) -> S] : \A i, j \in 1..Cardinality(S) : s[i] = s[j] => i = j}

\* {field[0]: field for field in rows}: a later row replaces an earlier one
FieldsByName(rows) ==
    [n \in {At(rows[i], 0) : i \in 1..Len(rows)} |->
        rows[CHOOSE i \in 1..Len(rows) :
                /\ At(rows[i], 0) = n
                /\ \A j \in (i + 1)..Len(rows) : At(rows[j], 0) # n]]

-----------------------------------------------------------------------------
(* compare_table_structures *)

\* result = {'only_in_sit': [], 'only_in_uat': [], 'different_tables': {}}
EmptyResult == [only_in_sit |-> <<>>, only_in_uat |-> <<>>, different_tables |-> <<>>]

\* the difference taken without its right operand
OnlyInNoSubtract(a, b) == a

\* tables_db1 - tables_db2, field_names1 - field_names2
OnlyIn(a, b) == a \ b

\* tables_db1 & tables_db2, field_names1 & field_names2
Common(a, b) == a \cap b

\* `is not` in place of `!=`: two tuples fetched separately are never the same object
RowsDifferByIdentity(r1, r2) == TRUE

\* str.lower() of the type strings of the model
Lower(s) == IF s = "VARCHAR(10)" THEN "varchar(10)" ELSE s

\* the rows compared with their types case-folded
RowsDifferIgnoringCase(r1, r2) ==
    [r1 EXCEPT ![2] = Lower(r1[2])] # [r2 EXCEPT ![2] = Lower(r2[2])]

\* fields1[field] != fields2[field]: tuple inequality, element by element
RowsDiffer(r1, r2) == r1 # r2

\* (fields1[field][4] or '') != (fields2[field][4] or ''): None taken for ''
DefaultValueDiffCoalesced(r1, r2) ==
    (IF At(r1, 4) = None THEN Str("") ELSE At(r1, 4))
        # (IF At(r2, 4) = None THEN Str("") ELSE At(r2, 4))

\* fields1[field][4] != fields2[field][4]
DefaultValueDiff(r1, r2) == At(r1, 4) # At(r2, 4)

\* the entry with fields1[field] in both slots
FieldDiffSameSide(r1, r2) ==
    [db1 |-> r1, db2 |-> r1, default_value_diff |-> DefaultValueDiff(r1, r2)]

\* the entry stored in diff_fields['different_fields'][field]
FieldDiff(r1, r2) ==
    [db1 |-> r1, db2 |-> r2, default_value_diff |-> DefaultValueDiff(r1, r2)]

\* diff_fields['different_fields'] after the loop over common_fields
DifferentFields(fields1, fields2) ==
    [f \in {g \in Common(DOMAIN fields1, DOMAIN fields2) : RowsDiffer(fields1[g], fields2[g])}
        |-> FieldDiff(fields1[f], fields2[f])]

\* the values diff_fields can have for one common table
DiffFields(rows1, rows2) ==
    LET fields1 == FieldsByName(rows1)
        fields2 == FieldsByName(rows2)
    IN  {[only_in_sit |-> s, only_in_uat |-> u,
          different_fields |-> DifferentFields(fields1, fields2)] :
            s \in ListOfSet(OnlyIn(DOMAIN fields1, DOMAIN fields2)),
            u \in ListOfSet(OnlyIn(DOMAIN fields2, DOMAIN fields1))}

\* the test on the two lists only
AnyValueListsOnly(diff) ==
    \/ diff.only_in_sit # <<>>
    \/ diff.only_in_uat # <<>>

\* any(diff_fields.values()): a non-empty list or dict is true
AnyValue(diff) ==
    \/ diff.only_in_sit # <<>>
    \/ diff.only_in_uat # <<>>
    \/ DOMAIN diff.different_fields # {}

\* one diff_fields per common table
RECURSIVE DiffChoices(_, _, _)
DiffChoices(d1, d2, ts) ==
    IF ts = {} THEN {<<>>}
    ELSE LET t == CHOOSE x \in ts : TRUE
         IN  {(t :> d) @@ c : d \in DiffFields(d1[t], d2[t]),
                              c \in DiffChoices(d1, d2, ts \ {t})}

\* result['different_tables'][table] = diff_fields, where any(...) holds
DifferentTables(c) == [t \in {u \in DOMAIN c : AnyValue(c[u])} |-> c[t]]

\* `result` kept across invocations (a module-level dict, or a mutable default
\* argument): each invocation extends the lists of the one before
CompareResultsAccumulating(d1, d2) ==
    {[only_in_sit |-> result.only_in_sit \o s, only_in_uat |-> result.only_in_uat \o u,
      different_tables |-> DifferentTables(c)] :
        s \in ListOfSet(OnlyIn(DOMAIN d1, DOMAIN d2)),
        u \in ListOfSet(OnlyIn(DOMAIN d2, DOMAIN d1)),
        c \in DiffChoices(d1, d2, Common(DOMAIN d1, DOMAIN d2))}

\* the dicts compare_table_structures(d1, d2) can return
CompareResults(d1, d2) ==
    {[only_in_sit |-> s, only_in_uat |-> u, different_tables |-> DifferentTables(c)] :
        s \in ListOfSet(OnlyIn(DOMAIN d1, DOMAIN d2)),
        u \in ListOfSet(OnlyIn(DOMAIN d2, DOMAIN d1)),
        c \in DiffChoices(d1, d2, Common(DOMAIN d1, DOMAIN d2))}

\* the exceptions of compare_table_structures: field[0] of an empty row of a
\* common table, and [4] of a differing row with fewer than five fields
CompareRaises(d1, d2) ==
    \E t \in Common(DOMAIN d1, DOMAIN d2) :
        \/ \E r \in Range(d1[t]) \cup Range(d2[t]) : Len(r) = 0
        \/ /\ \A r \in Range(d1[t]) \cup Range(d2[t]) : Len(r) > 0
           /\ LET fields1 == FieldsByName(d1[t])
                  fields2 == FieldsByName(d2[t])
              IN  \E f \in Common(DOMAIN fields1, DOMAIN fields2) :
                     /\ RowsDiffer(fields1[f], fields2[f])
                     /\ (Len(fields1[f]) < 5 \/ Len(fields2[f]) < 5)

-----------------------------------------------------------------------------
(* print_comparison_result and export_to_excel *)

\* '{...[4]}' inside an f-string: None comes out as "None", a str as itself
Fmt(v) == IF v = None THEN "None" ELSE v[1]

\* the five printed attributes of a row ("类型=..., 是否为空=..., 主键类型=...,
\* 默认值='...', 额外属性=...")
Attrs(row) == <<At(row, 1), At(row, 2), At(row, 3), Fmt(At(row, 4)), At(row, 5)>>

\* "是" if a != b else "否"
YesNo(differs) == IF differs THEN "yes" ELSE "no"

\* the lines printed for result['different_tables'] (lines 110-133), without
\* their order, which is the insertion order of the two dicts
DiffLines(res) ==
    UNION {
        {<<"table", t>>}
        \cup {<<"only_in_sit_field", t, f>> : f \in Range(res.different_tables[t].only_in_sit)}
        \cup {<<"only_in_uat_field", t, f>> : f \in Range(res.different_tables[t].only_in_uat)}
        \cup UNION {
              LET details == res.different_tables[t].different_fields[f]
              IN  {<<"field", t, f, Attrs(details.db1), Attrs(details.db2)>>}
                  \cup (IF details.default_value_diff
                        THEN {<<"default_diff", t, f,
                                Fmt(At(details.db1, 4)), Fmt(At(details.db2, 4))>>}
                        ELSE {})
              : f \in DOMAIN res.different_tables[t].different_fields}
        : t \in DOMAIN res.different_tables}

\* what is printed before the block of result['different_tables'] (lines 93-105)
ConsoleHead(res) ==
    <<<<"banner">>>>
    \o (IF res.only_in_sit # <<>> THEN <<<<"only_in_sit_tables", res.only_in_sit>>>> ELSE <<>>)
    \o (IF res.only_in_uat # <<>> THEN <<<<"only_in_uat_tables", res.only_in_uat>>>> ELSE <<>>)

\* what print_comparison_result prints before it calls export_to_excel
ConsoleOutput(res) ==
    ConsoleHead(res)
    \o (IF DOMAIN res.different_tables # {}
        THEN <<<<"different_tables", DiffLines(res)>>>> ELSE <<>>)
    \o <<<<"finished">>>>

\* openpyxl.Workbook(): one empty worksheet titled "Sheet"
NewWorkbook == <<[title |-> "Sheet", rows |-> <<>>]>>

\* a sheet of table names: the header ["表名"], then one row per name
NameSheet(title, names) ==
    [title |-> title, rows |-> <<<<"table">>>> \o [i \in 1..Len(names) |-> <<names[i]>>]]

\* the row appended for one entry of different_fields (lines 183-191)
FieldRow(t, f, details) ==
    <<t, "field_attribute_diff", f, Attrs(details.db1), Attrs(details.db2),
      YesNo(At(details.db1, 1) # At(details.db2, 1)),
      YesNo(At(details.db1, 2) # At(details.db2, 2)),
      YesNo(At(details.db1, 3) # At(details.db2, 3)),
      YesNo(At(details.db1, 4) # At(details.db2, 4)),
      YesNo(At(details.db1, 5) # At(details.db2, 5))>>

\* the rows appended to the sheet "表结构差异" after its header, without their
\* order, which is the insertion order of the two dicts
DiffRows(res) ==
    UNION {
        {<<t, "field_only_in_sit", f, "-", "-">> : f \in Range(res.different_tables[t].only_in_sit)}
        \cup {<<t, "field_only_in_uat", f, "-", "-">> : f \in Range(res.different_tables[t].only_in_uat)}
        \cup {FieldRow(t, f, res.different_tables[t].different_fields[f]) :
                f \in DOMAIN res.different_tables[t].different_fields}
        : t \in DOMAIN res.different_tables}

\* the sheet "表结构差异": its ten-column header and its rows
DiffSheet(res) ==
    [title |-> "table_diffs",
     header |-> <<"table", "kind", "field", "sit_attrs", "uat_attrs", "type_diff",
                  "null_diff", "key_diff", "default_diff", "extra_diff">>,
     rows |-> DiffRows(res)]

\* wb.create_sheet(...) for each non-empty category (lines 155-191)
CreateSheets(book, res) ==
    book
    \o (IF res.only_in_sit # <<>>
        THEN <<NameSheet("only_in_sit_tables", res.only_in_sit)>> ELSE <<>>)
    \o (IF res.only_in_uat # <<>>
        THEN <<NameSheet("only_in_uat_tables", res.only_in_uat)>> ELSE <<>>)
    \o (IF DOMAIN res.different_tables # {} THEN <<DiffSheet(res)>> ELSE <<>>)

\* if "Sheet" in wb.sheetnames: wb.remove(wb["Sheet"])
RemoveDefaultSheet(book) == SelectSeq(book, LAMBDA ws : ws.title # "Sheet")

\* the worksheets of the workbook when wb.save(filename) is called
SheetsAtSave(res) == RemoveDefaultSheet(CreateSheets(NewWorkbook, res))

\* wb.save: openpyxl raises IndexError("At least one sheet must be visible")
\* for a workbook without worksheets
SaveRaises(book) == Len(book) = 0

-----------------------------------------------------------------------------
(* The schemas the model runs on. DESCRIBE yields six strings per column,  *)
(* the Default one being None for a column without a default.              *)

Types == {"varchar(10)", "VARCHAR(10)"}
Nulls == {"YES", "NO"}
Keys == {"", "PRI"}
Defaults == {None, Str("")}
Extras == {"", "auto_increment"}

BaseRow(name) == <<name, "varchar(10)", "YES", "", None, "">>
AllRows(name) ==
    {<<name, t, n, k, d, e>> : t \in Types, n \in Nulls, k \in Keys, d \in Defaults, e \in Extras}

\* tables as DESCRIBE returns them: one column, an attribute changed, a column more
TableShapes ==
    {<<BaseRow("email")>>,
     <<<<"email", "varchar(10)", "YES", "", Str(""), "">>>>,
     <<BaseRow("id"), BaseRow("email")>>}

SchemasOver(shapes) == UNION {[S -> shapes] : S \in SUBSET TableNames}

\* every schema over the table names whose tables have one of the shapes
BroadSchemas == SchemasOver(TableShapes)

\* one table with every combination of the five attributes of a column, alone,
\* after and before a second column, and a table sharing no column with those
DeepTables ==
    {<<r>> : r \in AllRows("email")}
    \cup {<<BaseRow("id"), r>> : r \in AllRows("email")}
    \cup {<<r, BaseRow("id")>> : r \in AllRows("email")}
    \cup {<<BaseRow("name")>>}

DeepSchemas == {<<>>} \cup {("users" :> t) : t \in DeepTables}

\* the pairs of schemas compare_table_structures is run on
InputPairs == (BroadSchemas \X BroadSchemas) \cup (DeepSchemas \X DeepSchemas)

\* the schemas of the two servers of a run of __main__
ServerSchemas == BroadSchemas

-----------------------------------------------------------------------------
(* compare_table_structures, print_comparison_result and export_to_excel   *)
(* as steps.                                                               *)

\* compare_table_structures(db1, db2) returns
Compare ==
    /\ pc = "compare"
    /\ ~CompareRaises(db1, db2)
    /\ result' \in CompareResults(db1, db2)
    /\ calls' = calls + 1
    /\ pc' = "print"
    /\ UNCHANGED <<server, side, tables, idx, table_info, returned, db1, db2,
                   console, wb, saved>>

\* compare_table_structures invoked again on equal inputs: by a caller, on
\* dicts filled in another order, or in another run of the program
CompareAgain ==
    /\ pc = "print"
    /\ calls < MaxCalls
    /\ ~CompareRaises(db1, db2)
    /\ result' \in CompareResults(db1, db2)
    /\ calls' = calls + 1
    /\ UNCHANGED <<server, pc, side, tables, idx, table_info, returned, db1, db2,
                   console, wb, saved>>

\* compare_table_structures(db1, db2) raises IndexError
CompareFail ==
    /\ pc = "compare"
    /\ CompareRaises(db1, db2)
    /\ calls' = calls + 1
    /\ pc' = "error"
    /\ UNCHANGED <<server, side, tables, idx, table_info, returned, db1, db2,
                   result, console, wb, saved>>

\* details['db1'][5], details['db2'][5] (lines 130-131) of a row of five fields
RenderRaises(res) ==
    \E t \in DOMAIN res.different_tables :
        \E f \in DOMAIN res.different_tables[t].different_fields :
            LET details == res.different_tables[t].different_fields[f]
            IN  Len(details.db1) < 6 \/ Len(details.db2) < 6

\* print_comparison_result(result), export_to_excel(result, ...) included
Render ==
    /\ pc = "print"
    /\ ~RenderRaises(result)
    /\ wb' = SheetsAtSave(result)
    /\ IF SaveRaises(wb')
       THEN /\ saved' = FALSE
            /\ console' = ConsoleOutput(result)
            /\ pc' = "crashed"
       ELSE /\ saved' = TRUE
            /\ console' = ConsoleOutput(result) \o <<<<"exported">>>>
            /\ pc' = "done"
    /\ UNCHANGED <<server, side, tables, idx, table_info, returned, db1, db2,
                   calls, result>>

\* compare_table_structures called on two dicts, then the result rendered
InitDiffer ==
    /\ \E p \in InputPairs : db1 = p[1] /\ db2 = p[2]
    /\ server = <<db1, db2>>
    /\ pc = "compare"
    /\ side = 2
    /\ tables = <<>>
    /\ idx = 1
    /\ table_info = <<>>
    /\ returned = {1, 2}
    /\ calls = 0
    /\ result = EmptyResult
    /\ console = <<>>
    /\ wb = <<>>
    /\ saved = FALSE

NextDiffer == Compare \/ CompareAgain \/ Render

SpecDiffer == InitDiffer /\ [][NextDiffer]_vars

-----------------------------------------------------------------------------
(* print_comparison_result on a result that holds a row of five fields *)

\* print_comparison_result(result) raises IndexError inside the block of
\* result['different_tables']; export_to_excel is not reached
RenderFail ==
    /\ pc = "print"
    /\ RenderRaises(result)
    /\ console' = ConsoleHead(result) \o <<<<"different_tables", "IndexError">>>>
    /\ pc' = "error"
    /\ UNCHANGED <<server, side, tables, idx, table_info, returned, db1, db2,
                   calls, result, wb, saved>>

-----------------------------------------------------------------------------
(* get_table_structure and __main__ *)

\* SHOW TABLES: the names of a schema, in the order the server lists them
ShowTablesOf(schema) ==
    SelectSeq(AllTableNames, LAMBDA t : t \in DOMAIN schema)

\* pymysql.connect(**conn_config); connection.cursor()
Connect ==
    /\ pc = "connect"
    /\ pc' = "show_tables"
    /\ UNCHANGED <<server, side, tables, idx, table_info, returned, db1, db2,
                   calls, result, console, wb, saved>>

\* cursor.execute("SHOW TABLES"); tables = [...]; table_info = {}
ShowTables ==
    /\ pc = "show_tables"
    /\ tables' = ShowTablesOf(server[side])
    /\ table_info' = <<>>
    /\ idx' = 1
    /\ pc' = "describe"
    /\ UNCHANGED <<server, side, returned, db1, db2, calls, result, console, wb, saved>>

\* one pass of `for table in tables`: SHOW CREATE TABLE, DESCRIBE,
\* table_info[table] = fields
Describe ==
    /\ pc = "describe"
    /\ idx <= Len(tables)
    /\ table_info' = (tables[idx] :> server[side][tables[idx]]) @@ table_info
    /\ idx' = idx + 1
    /\ UNCHANGED <<server, pc, side, tables, returned, db1, db2, calls, result,
                   console, wb, saved>>

\* the value get_table_structure hands to __main__, which binds it to
\* db1_tables (first call) or db2_tables (second call)
Bind(info) ==
    /\ returned' = returned \cup {side}
    /\ IF side = 1
       THEN db1' = info /\ side' = 2 /\ pc' = "connect" /\ UNCHANGED db2
       ELSE db2' = info /\ pc' = "compare" /\ UNCHANGED <<db1, side>>

\* cursor.close(); connection.close(); return table_info
Return ==
    /\ pc = "describe"
    /\ idx > Len(tables)
    /\ Bind(table_info)
    /\ UNCHANGED <<server, tables, idx, table_info, calls, result, console, wb, saved>>

\* the loop wrapped in try/except: a failing query ends the loop and the
\* tables read so far are returned
AcquireFailSwallowed ==
    /\ pc = "describe"
    /\ idx <= Len(tables)
    /\ Bind(table_info)
    /\ UNCHANGED <<server, tables, idx, table_info, calls, result, console, wb, saved>>

\* pymysql.connect or a cursor.execute raises: nothing catches it, so the
\* exception leaves get_table_structure and ends the run
AcquireFail ==
    /\ \/ pc \in {"connect", "show_tables"}
       \/ pc = "describe" /\ idx <= Len(tables)
    /\ pc' = "aborted"
    /\ UNCHANGED <<server, side, tables, idx, table_info, returned, db1, db2,
                   calls, result, console, wb, saved>>

\* __main__ with the two servers holding any of the schemas
Init ==
    /\ server \in ServerSchemas \X ServerSchemas
    /\ pc = "connect"
    /\ side = 1
    /\ tables = <<>>
    /\ idx = 1
    /\ table_info = <<>>
    /\ returned = {}
    /\ db1 = <<>>
    /\ db2 = <<>>
    /\ calls = 0
    /\ result = EmptyResult
    /\ console = <<>>
    /\ wb = <<>>
    /\ saved = FALSE

Next == Connect \/ ShowTables \/ Describe \/ Return \/ AcquireFail \/ Compare \/ Render

Spec == Init /\ [][Next]_vars

-----------------------------------------------------------------------------
(* compare_table_structures on rows that lack fields *)

\* the first n fields of a row, n < 6 for a row that lacks fields
Prefixes(rows) == {SubSeq(r, 1, n) : r \in rows, n \in 0..6}

ShortRows ==
    Prefixes({BaseRow("email"),
              <<"email", "varchar(10)", "YES", "", Str(""), "">>,
              <<"email", "varchar(10)", "YES", "", None, "auto_increment">>})

MalformedTables ==
    {<<r>> : r \in ShortRows} \cup {<<BaseRow("id"), r>> : r \in ShortRows}

MalformedSchemas == {<<>>} \cup {("users" :> t) : t \in MalformedTables}

InitMalformed ==
    /\ db1 \in MalformedSchemas
    /\ db2 \in MalformedSchemas
    /\ server = <<db1, db2>>
    /\ pc = "compare"
    /\ side = 2
    /\ tables = <<>>
    /\ idx = 1
    /\ table_info = <<>>
    /\ returned = {1, 2}
    /\ calls = 0
    /\ result = EmptyResult
    /\ console = <<>>
    /\ wb = <<>>
    /\ saved = FALSE

NextMalformed == Compare \/ CompareFail \/ Render \/ RenderFail

SpecMalformed == InitMalformed /\ [][NextMalformed]_vars

-----------------------------------------------------------------------------
(* What the properties below speak of. *)

\* compare_table_structures has returned `result`
Compared == calls >= 1 /\ pc # "error"

SharedTables == DOMAIN db1 \cap DOMAIN db2

ColumnNames(rows) == {At(rows[i], 0) : i \in 1..Len(rows)}

SharedColumns(t) == ColumnNames(db1[t]) \cap ColumnNames(db2[t])

\* the row of column n; DESCRIBE lists a column once
RowNamed(rows, n) == CHOOSE r \in Range(rows) : At(r, 0) = n

\* type, nullability, key role, default value or extra is unequal
AttributesDiffer(r1, r2) == \E i \in 1..5 : At(r1, i) # At(r2, i)

\* a column of t is in one side only, or a shared column of t differs
HasColumnDifference(t) ==
    \/ ColumnNames(db1[t]) # ColumnNames(db2[t])
    \/ \E n \in SharedColumns(t) : AttributesDiffer(RowNamed(db1[t], n), RowNamed(db2[t], n))

NoRepeats(s) == \A i, j \in 1..Len(s) : s[i] = s[j] => i = j

Count(s, x) == Cardinality({i \in 1..Len(s) : s[i] = x})

\* the same names, each as often, in any order
SameNames(s, u) == Len(s) = Len(u) /\ \A x \in Range(s) \cup Range(u) : Count(s, x) = Count(u, x)

\* no default on one side, the default '' on the other, the rest equal
NoneVsEmpty(r1, r2) ==
    /\ {At(r1, 4), At(r2, 4)} = {None, Str("")}
    /\ \A i \in {1, 2, 3, 5} : At(r1, i) = At(r2, i)

\* the rows of the sheet of table differences in the workbook
DiffSheetRows(book) ==
    UNION {book[i].rows : i \in {j \in 1..Len(book) : book[j].title = "table_diffs"}}

-----------------------------------------------------------------------------
\* C1: a table of both inputs is a key of result['different_tables'] exactly
\* when a column name of it is in one side only or a shared column of it has
\* differing attributes.
C1_Completeness ==
    Compared =>
        \A t \in SharedTables :
            (t \in DOMAIN result.different_tables) <=> HasColumnDifference(t)

\* one shared table is reported and another, without a difference, is not
C1_Witness ==
    /\ Compared
    /\ \E t \in SharedTables : t \in DOMAIN result.different_tables
    /\ \E t \in SharedTables : t \notin DOMAIN result.different_tables

\* C2: only_in_sit holds exactly the tables of db1 not in db2, only_in_uat
\* exactly those of db2 not in db1, each once; the lists are disjoint; the keys
\* of different_tables are tables of both; every table is in exactly one of
\* only-left, only-right, shared.
C2_Partition ==
    Compared =>
        /\ Range(result.only_in_sit) = DOMAIN db1 \ DOMAIN db2
        /\ Range(result.only_in_uat) = DOMAIN db2 \ DOMAIN db1
        /\ NoRepeats(result.only_in_sit)
        /\ NoRepeats(result.only_in_uat)
        /\ Range(result.only_in_sit) \cap Range(result.only_in_uat) = {}
        /\ DOMAIN result.different_tables \subseteq SharedTables
        /\ \A t \in DOMAIN db1 \cup DOMAIN db2 :
              Cardinality({k \in 1..3 :
                  \/ k = 1 /\ t \in Range(result.only_in_sit)
                  \/ k = 2 /\ t \in Range(result.only_in_uat)
                  \/ k = 3 /\ t \in SharedTables}) = 1

\* a table in the left input only, one in the right only, a shared one reported
C2_Witness ==
    /\ Compared
    /\ result.only_in_sit # <<>>
    /\ result.only_in_uat # <<>>
    /\ DOMAIN result.different_tables # {}

\* res is a result of the swapped call, as C3 has it, for the result r
Mirrored(r, res) ==
    /\ Range(r.only_in_sit) = Range(res.only_in_uat)
    /\ Range(r.only_in_uat) = Range(res.only_in_sit)
    /\ DOMAIN r.different_tables = DOMAIN res.different_tables
    /\ \A t \in DOMAIN r.different_tables \cap DOMAIN res.different_tables :
          LET a == r.different_tables[t]
              b == res.different_tables[t]
          IN  /\ Range(a.only_in_sit) = Range(b.only_in_uat)
              /\ Range(a.only_in_uat) = Range(b.only_in_sit)
              /\ DOMAIN a.different_fields = DOMAIN b.different_fields
              /\ \A f \in DOMAIN a.different_fields \cap DOMAIN b.different_fields :
                    /\ a.different_fields[f].db1 = b.different_fields[f].db2
                    /\ a.different_fields[f].db2 = b.different_fields[f].db1
                    /\ a.different_fields[f].default_value_diff
                          = b.different_fields[f].default_value_diff

\* C3: compare_table_structures(A, B) and compare_table_structures(B, A) have
\* the same keys in different_tables, the only_in_sit of one is, as a set, the
\* only_in_uat of the other for tables and for columns, and the db1 and db2
\* rows of every differing column are swapped, default_value_diff the same.
C3_Symmetry ==
    Compared => \A res \in CompareResults(db2, db1) : Mirrored(result, res)

\* tables and columns in one side only, and a differing column with two rows
C3_Witness ==
    /\ Compared
    /\ result.only_in_sit # <<>>
    /\ \E t \in DOMAIN result.different_tables :
          result.different_tables[t].only_in_sit # <<>>
    /\ \E t \in DOMAIN result.different_tables :
          \E f \in DOMAIN result.different_tables[t].different_fields :
              result.different_tables[t].different_fields[f].db1
                  # result.different_tables[t].different_fields[f].db2

\* C4: comparing a schema with an identical copy returns the empty result.
C4_Identity ==
    (Compared /\ db1 = db2) => result = EmptyResult

\* a schema of two tables compared with its copy
C4_Witness ==
    /\ Compared
    /\ db1 = db2
    /\ Cardinality(DOMAIN db1) >= 2

\* C5: a shared column of a shared table has an entry in different_fields
\* exactly when one of its five attributes is unequal, equality being exact.
C5_Exactness ==
    Compared =>
        \A t \in SharedTables : \A n \in SharedColumns(t) :
            (/\ t \in DOMAIN result.different_tables
             /\ n \in DOMAIN result.different_tables[t].different_fields)
            <=> AttributesDiffer(RowNamed(db1[t], n), RowNamed(db2[t], n))

\* VARCHAR(10) against varchar(10), nothing else unequal, and the entry is there
C5_Witness ==
    /\ Compared
    /\ \E t \in SharedTables : \E n \in SharedColumns(t) :
          /\ At(RowNamed(db1[t], n), 1) = "VARCHAR(10)"
          /\ At(RowNamed(db2[t], n), 1) = "varchar(10)"
          /\ \A i \in 2..5 : At(RowNamed(db1[t], n), i) = At(RowNamed(db2[t], n), i)
          /\ t \in DOMAIN result.different_tables
          /\ n \in DOMAIN result.different_tables[t].different_fields

\* C6: a shared column with no default on one side and the default '' on the
\* other, its other attributes equal, gets an entry with default_value_diff
\* true, whose exported flags are yes for the default and no for the other
\* four; and the exported default flag of every entry is its stored
\* default_value_diff.
C6_DefaultDistinct ==
    /\ Compared =>
          \A t \in SharedTables : \A n \in SharedColumns(t) :
              NoneVsEmpty(RowNamed(db1[t], n), RowNamed(db2[t], n)) =>
                  /\ t \in DOMAIN result.different_tables
                  /\ n \in DOMAIN result.different_tables[t].different_fields
                  /\ result.different_tables[t].different_fields[n].default_value_diff
    /\ pc = "done" =>
          \A t \in DOMAIN result.different_tables :
              \A f \in DOMAIN result.different_tables[t].different_fields :
                  LET details == result.different_tables[t].different_fields[f]
                      rows == {r \in DiffSheetRows(wb) :
                                  r[1] = t /\ r[2] = "field_attribute_diff" /\ r[3] = f}
                  IN  /\ Cardinality(rows) = 1
                      /\ \A r \in rows :
                            /\ r[9] = YesNo(details.default_value_diff)
                            /\ NoneVsEmpty(details.db1, details.db2) =>
                                  <<r[6], r[7], r[8], r[9], r[10]>>
                                      = <<"no", "no", "no", "yes", "no">>

\* the workbook is saved with the row of such a column
C6_Witness ==
    /\ pc = "done"
    /\ \E t \in DOMAIN result.different_tables :
          \E f \in DOMAIN result.different_tables[t].different_fields :
              /\ NoneVsEmpty(result.different_tables[t].different_fields[f].db1,
                             result.different_tables[t].different_fields[f].db2)
              /\ \E r \in DiffSheetRows(wb) : r[1] = t /\ r[3] = f /\ r[9] = "yes"

\* C7: compare_table_structures runs only after both get_table_structure calls
\* have returned; a call returns the whole mapping or nothing; after a failed
\* connection or query the run has ended: no comparison, no console report, no
\* export.
C7_AbortOnFailure ==
    /\ [](/\ 1 \in returned => db1 = server[1]
          /\ 2 \in returned => db2 = server[2]
          /\ returned # {1, 2} =>
                calls = 0 /\ result = EmptyResult /\ console = <<>> /\ wb = <<>> /\ ~saved
          /\ pc = "aborted" =>
                calls = 0 /\ result = EmptyResult /\ console = <<>> /\ wb = <<>> /\ ~saved)
    /\ [][pc = "aborted" => pc' = "aborted"]_vars

\* the second acquisition fails after the first has returned and after it has
\* read a table itself
C7_Witness ==
    /\ pc = "aborted"
    /\ side = 2
    /\ 1 \in returned
    /\ DOMAIN table_info # {}
    /\ DOMAIN table_info # DOMAIN server[2]

\* C8 (for the rows the comparison reads, those of the tables of both inputs):
\* when a row lacks one of its six fields, compare_table_structures returns
\* no result.
C8_MalformedRejected ==
    (\E t \in SharedTables : \E r \in Range(db1[t]) \cup Range(db2[t]) : Len(r) < 6)
        => ~(calls >= 1 /\ pc \in {"print", "done", "crashed"})

\* a step keeps both inputs; a step that is no call keeps the result
FrameStep ==
    /\ db1' = db1
    /\ db2' = db2
    /\ calls' = calls => result' = result

\* C9 as stated: compare_table_structures leaves db1 and db2 unchanged and
\* returns the same result on every invocation; print_comparison_result and
\* export_to_excel leave the result unchanged.
C9_PurityAsStated ==
    [][/\ FrameStep
       /\ (calls >= 1 /\ calls' = calls + 1) => result' = result]_vars

\* r and res are the same but for the order of the names in their lists
SameUpToOrder(r, res) ==
    /\ SameNames(r.only_in_sit, res.only_in_sit)
    /\ SameNames(r.only_in_uat, res.only_in_uat)
    /\ DOMAIN r.different_tables = DOMAIN res.different_tables
    /\ \A t \in DOMAIN r.different_tables \cap DOMAIN res.different_tables :
          /\ SameNames(r.different_tables[t].only_in_sit, res.different_tables[t].only_in_sit)
          /\ SameNames(r.different_tables[t].only_in_uat, res.different_tables[t].only_in_uat)
          /\ r.different_tables[t].different_fields = res.different_tables[t].different_fields

\* C9, amended: compare_table_structures leaves db1 and db2 unchanged and
\* returns on every invocation the same result but for the order of the names
\* in the only_in_sit and only_in_uat lists; print_comparison_result and
\* export_to_excel leave the result unchanged.
C9_Purity ==
    [][/\ FrameStep
       /\ (calls >= 1 /\ calls' = calls + 1) => SameUpToOrder(result, result')]_vars

\* a second invocation on inputs with two tables in the left one only, rendered
C9_Witness ==
    /\ calls >= 2
    /\ pc = "done"
    /\ Len(result.only_in_sit) >= 2

\* C10: the workbook holds at least one worksheet when it is saved.
C10_SheetAtSave ==
    pc \in {"done", "crashed"} => Len(wb) >= 1

====
